---- MODULE Spec2Model ----
(***************************************************************************)
(* Personal Library Manager (src/app.py): the LibraryManager class, its    *)
(* JSON persistence and its five operations.                               *)
(*                                                                         *)
(* Python values are modelled as follows.  A str is a sequence of          *)
(* one-character strings, so that strip(), lower() and the `in` operator   *)
(* are computed character by character.  A list is a sequence, a dict is   *)
(* a function from key names to values; self.library carries its Python    *)
(* type, since json.load may return a value that is no list.  A float is   *)
(* kept exact, as a reduced fraction.  The text of the JSON file is a      *)
(* sequence of lexical tokens; json.dump lays the tokens out and json.load *)
(* parses them back.  Whitespace between tokens (indent=4) carries no      *)
(* information and is left out.                                            *)
(***************************************************************************)
EXTENDS Integers, Sequences, FiniteSets, TLC

VARIABLES
    file,       \* the storage location self.filename: presence and content
    library,    \* self.library of the manager the script is using
    op,         \* the operation that ran last
    args,       \* the arguments it was called with
    outcome,    \* what it reported (st.success/st.error/st.warning) or raised
    ret,        \* what it returned (search_books, display_statistics)
    saved       \* whether it invoked save_library

vars == <<file, library, op, args, outcome, ret, saved>>

---------------------------------------------------------------------------
(* Bounds *)

\* most records the catalog grows to through add_book
MaxBooks == 2
\* longest catalog found in a previously saved file (read/remove scenarios)
MaxCatalog == 4

---------------------------------------------------------------------------
(* Python str *)

LowerChar(c) ==
    CASE c = "A" -> "a"
      [] c = "B" -> "b"
      [] c = "C" -> "c"
      [] OTHER -> c

\* str.lower()
Lower(s) == [i \in 1..Len(s) |-> LowerChar(s[i])]

IsSpace(c) == c = " "

RECURSIVE LStrip(_)
LStrip(s) == IF s # <<>> /\ IsSpace(Head(s)) THEN LStrip(Tail(s)) ELSE s

RECURSIVE RStrip(_)
RStrip(s) ==
    IF s # <<>> /\ IsSpace(s[Len(s)]) THEN RStrip(SubSeq(s, 1, Len(s) - 1)) ELSE s

\* str.strip()
Strip(s) == RStrip(LStrip(s))

\* q in s, for two str
In(q, s) == \E i \in 0..(Len(s) - Len(q)) : SubSeq(s, i + 1, i + Len(q)) = q

\* truth value of a str: `not s` holds of the empty str only
Falsy(s) == Len(s) = 0

\* int(x) of a non-negative number given as whole + tenths/10: truncation
PyInt(x) == x.whole

---------------------------------------------------------------------------
(* The value of self.library: its Python type and, for a list, its items *)

PyList(items) == [type |-> "list", items |-> items]
PyNone == [type |-> "NoneType", items |-> <<>>]
\* the name `manager` when LibraryManager() raised: no object was bound
Unbound == [type |-> "unbound", items |-> <<>>]

IsList(v) == v.type = "list"

---------------------------------------------------------------------------
(* JSON text: json.dump and json.load *)

Punct(c) == [k |-> c]
\* a key of an object together with its colon, e.g. "title":
Key(name) == [k |-> "key", name |-> name]
StrTok(s) == [k |-> "str", s |-> s]
NumTok(n) == [k |-> "num", n |-> n]
\* fault variant of BoolTok: every flag is written as true
BoolTok_always_true(b) == [k |-> "true"]
BoolTok(b) == [k |-> IF b THEN "true" ELSE "false"]
NullTok == [k |-> "null"]

\* one dict of the list, as json.dump writes it: the keys in the order
\* add_book inserts them
DumpBook(b) ==
    <<Punct("{"),
      Key("title"), StrTok(b.title), Punct(","),
      Key("author"), StrTok(b.author), Punct(","),
      Key("year"), NumTok(b.year), Punct(","),
      Key("genre"), StrTok(b.genre), Punct(","),
      Key("read"), BoolTok(b.read),
      Punct("}")>>

RECURSIVE DumpItems(_)
DumpItems(lib) ==
    IF Len(lib) = 0 THEN <<>>
    ELSE IF Len(lib) = 1 THEN DumpBook(lib[1])
    ELSE DumpBook(Head(lib)) \o <<Punct(",")>> \o DumpItems(Tail(lib))

\* json.dump(self.library, file, indent=4, ensure_ascii=False): the full text
json_dump(lib) == <<Punct("[")>> \o DumpItems(lib) \o <<Punct("]")>>

\* result of a parse step: the value and the position after it
Parsed(kind, val, pos) == [ok |-> TRUE, kind |-> kind, val |-> val, pos |-> pos]
ParseFail == [ok |-> FALSE, kind |-> "error", val |-> <<>>, pos |-> 0]

EmptyDict == [n \in {} |-> 0]

RECURSIVE ParseValue(_, _), ParseElements(_, _, _), ParseMembers(_, _, _)

\* one JSON value starting at toks[i]
ParseValue(toks, i) ==
    IF i > Len(toks) THEN ParseFail
    ELSE LET t == toks[i] IN
         CASE t.k = "str" -> Parsed("str", t.s, i + 1)
           [] t.k = "num" -> Parsed("int", t.n, i + 1)
           [] t.k = "true" -> Parsed("bool", TRUE, i + 1)
           [] t.k = "false" -> Parsed("bool", FALSE, i + 1)
           [] t.k = "null" -> Parsed("NoneType", <<>>, i + 1)
           [] t.k = "[" ->
                IF i + 1 <= Len(toks) /\ toks[i + 1].k = "]"
                THEN Parsed("list", <<>>, i + 2)
                ELSE ParseElements(toks, i + 1, <<>>)
           [] t.k = "{" ->
                IF i + 1 <= Len(toks) /\ toks[i + 1].k = "}"
                THEN Parsed("dict", EmptyDict, i + 2)
                ELSE ParseMembers(toks, i + 1, EmptyDict)
           [] OTHER -> ParseFail

\* the elements of an array after "[" or ",", up to and including "]"
ParseElements(toks, i, acc) ==
    LET e == ParseValue(toks, i) IN
    IF ~e.ok \/ e.pos > Len(toks) THEN ParseFail
    ELSE IF toks[e.pos].k = "," THEN ParseElements(toks, e.pos + 1, Append(acc, e.val))
    ELSE IF toks[e.pos].k = "]" THEN Parsed("list", Append(acc, e.val), e.pos + 1)
    ELSE ParseFail

\* the members of an object after "{" or ",", up to and including "}";
\* a repeated key keeps its last value
ParseMembers(toks, i, acc) ==
    IF i > Len(toks) \/ toks[i].k # "key" THEN ParseFail
    ELSE LET e == ParseValue(toks, i + 1) IN
         IF ~e.ok \/ e.pos > Len(toks) THEN ParseFail
         ELSE LET d == (toks[i].name :> e.val) @@ acc IN
              IF toks[e.pos].k = "," THEN ParseMembers(toks, e.pos + 1, d)
              ELSE IF toks[e.pos].k = "}" THEN Parsed("dict", d, e.pos + 1)
              ELSE ParseFail

\* json.load(file): the whole text must be one value, else JSONDecodeError
json_load(toks) ==
    LET r == ParseValue(toks, 1) IN
    IF r.ok /\ r.pos = Len(toks) + 1 THEN r ELSE ParseFail

---------------------------------------------------------------------------
(* The storage location *)

NoFile == [exists |-> FALSE, utf8 |-> TRUE, toks |-> <<>>]
\* a file holding UTF-8 text
TextFile(toks) == [exists |-> TRUE, utf8 |-> TRUE, toks |-> toks]
\* a file whose bytes are not valid UTF-8
BinaryFile == [exists |-> TRUE, utf8 |-> FALSE, toks |-> <<>>]

\* LibraryManager.load_library: the value returned, or the exception that
\* leaves it (only JSONDecodeError and FileNotFoundError are caught; reading
\* undecodable bytes raises UnicodeDecodeError)
load_library(f) ==
    IF ~f.exists THEN [raised |-> FALSE, value |-> PyList(<<>>)]
    ELSE IF ~f.utf8 THEN [raised |-> TRUE, value |-> Unbound]
    ELSE LET r == json_load(f.toks) IN
         IF ~r.ok THEN [raised |-> FALSE, value |-> PyList(<<>>)]
         ELSE IF r.kind = "list" THEN [raised |-> FALSE, value |-> PyList(r.val)]
         ELSE [raised |-> FALSE, value |-> [type |-> r.kind, items |-> <<>>]]

\* how far a write gets: w tokens of the text.  WriteAll: the whole text.
\* A write that raises OSError (disk full, device error) stops earlier; the
\* model takes three such points: nothing written, half, all but "]".
\* open(..., "w") has truncated the file before the first token is written.
WriteAll(lib) == Len(json_dump(lib.items))
PartialWrites(lib) == {0, WriteAll(lib) \div 2, WriteAll(lib) - 1}

\* LibraryManager.save_library, the write getting as far as w
save_library(lib, w) ==
    [raised |-> w < WriteAll(lib),
     file |-> TextFile(SubSeq(json_dump(lib.items), 1, w))]

---------------------------------------------------------------------------
(* LibraryManager operations, as functions of the state they read *)

\* fault variant of NewBook: the title is stored as typed, blanks included
NewBook_unstripped(title, author, year, genre, read_status) ==
    [title |-> title,
     author |-> Strip(author),
     year |-> PyInt(year),
     genre |-> Strip(genre),
     read |-> read_status]

\* the dict add_book appends
NewBook(title, author, year, genre, read_status) ==
    [title |-> Strip(title),
     author |-> Strip(author),
     year |-> PyInt(year),
     genre |-> Strip(genre),
     read |-> read_status]

\* what an operation leaves behind
Effect(lib, f, out, sv) == [library |-> lib, file |-> f, outcome |-> out, saved |-> sv]

\* fault variant of add_book: the file is written before the append
add_book_save_first(lib, f, title, author, year, genre, read_status, w) ==
    IF Falsy(title) \/ Falsy(author)
    THEN Effect(lib, f, "ValidationFailure", FALSE)
    ELSE IF ~IsList(lib)
    THEN Effect(lib, f, "Raised", FALSE)
    ELSE LET lib2 == PyList(Append(lib.items,
                                   NewBook(title, author, year, genre, read_status)))
             sv == save_library(lib, IF w < WriteAll(lib2) THEN 0 ELSE WriteAll(lib))
         IN  Effect(lib2, sv.file, IF sv.raised THEN "Raised" ELSE "Success", TRUE)

\* LibraryManager.add_book; w is how the write inside save_library ends
add_book(lib, f, title, author, year, genre, read_status, w) ==
    IF Falsy(title) \/ Falsy(author)
    THEN Effect(lib, f, "ValidationFailure", FALSE)
    ELSE IF ~IsList(lib)
    THEN Effect(lib, f, "Raised", FALSE)      \* None has no append
    ELSE LET lib2 == PyList(Append(lib.items,
                                   NewBook(title, author, year, genre, read_status)))
             sv == save_library(lib2, w)
         IN  Effect(lib2, sv.file, IF sv.raised THEN "Raised" ELSE "Success", TRUE)

\* fault variant of KeepOthers: titles are compared as written
RECURSIVE KeepOthers_case_sensitive(_, _)
KeepOthers_case_sensitive(items, title) ==
    IF items = <<>> THEN <<>>
    ELSE IF Head(items).title # title
    THEN <<Head(items)>> \o KeepOthers_case_sensitive(Tail(items), title)
    ELSE KeepOthers_case_sensitive(Tail(items), title)

\* the list comprehension of remove_book: the books whose title differs
RECURSIVE KeepOthers(_, _)
KeepOthers(items, title) ==
    IF items = <<>> THEN <<>>
    ELSE IF Lower(Head(items).title) # Lower(title)
    THEN <<Head(items)>> \o KeepOthers(Tail(items), title)
    ELSE KeepOthers(Tail(items), title)

\* fault variant of remove_book: the file is written only when a record
\* was removed
remove_book_save_if_removed(lib, f, title, w) ==
    IF ~IsList(lib)
    THEN Effect(lib, f, "Raised", FALSE)
    ELSE LET lib2 == PyList(KeepOthers(lib.items, title))
             sv == save_library(lib2, w)
         IN  IF Len(lib2.items) = Len(lib.items)
             THEN Effect(lib2, f, "NotFound", FALSE)
             ELSE Effect(lib2, sv.file, IF sv.raised THEN "Raised" ELSE "Success", TRUE)

\* LibraryManager.remove_book
remove_book(lib, f, title, w) ==
    IF ~IsList(lib)
    THEN Effect(lib, f, "Raised", FALSE)      \* len(None) raises
    ELSE LET initial_count == Len(lib.items)
             lib2 == PyList(KeepOthers(lib.items, title))
             sv == save_library(lib2, w)
         IN  Effect(lib2, sv.file,
                    IF sv.raised THEN "Raised"
                    ELSE IF Len(lib2.items) < initial_count THEN "Success"
                    ELSE "NotFound",
                    TRUE)

\* fault variant of Matching: the author is not looked at
RECURSIVE Matching_title_only(_, _)
Matching_title_only(items, query) ==
    IF items = <<>> THEN <<>>
    ELSE IF In(Lower(query), Lower(Head(items).title))
    THEN <<Head(items)>> \o Matching_title_only(Tail(items), query)
    ELSE Matching_title_only(Tail(items), query)

\* the list comprehension of search_books
RECURSIVE Matching(_, _)
Matching(items, query) ==
    IF items = <<>> THEN <<>>
    ELSE IF In(Lower(query), Lower(Head(items).title))
            \/ In(Lower(query), Lower(Head(items).author))
    THEN <<Head(items)>> \o Matching(Tail(items), query)
    ELSE Matching(Tail(items), query)

\* LibraryManager.search_books: the list returned
search_books(lib, query) == Matching(lib.items, query)

\* a Python float, kept exact as a reduced fraction
RECURSIVE Gcd(_, _)
Gcd(a, b) == IF b = 0 THEN a ELSE Gcd(b, a % b)
Frac(n, d) == LET g == Gcd(n, d) IN [num |-> n \div g, den |-> d \div g]
Zero == [num |-> 0, den |-> 1]

\* fault variant of CountRead: every book counts as read
CountRead_all(items) == Len(items)

\* sum(1 for book in self.library if book["read"])
RECURSIVE CountRead(_)
CountRead(items) ==
    IF items = <<>> THEN 0
    ELSE (IF Head(items).read THEN 1 ELSE 0) + CountRead(Tail(items))

\* LibraryManager.display_statistics: the pair returned
display_statistics(lib) ==
    LET total_books == Len(lib.items)
        read_books == CountRead(lib.items)
        ratio == Frac(read_books, total_books)          \* read_books / total_books
        percentage_read ==
            IF total_books > 0 THEN Frac(ratio.num * 100, ratio.den) ELSE Zero
    IN  <<total_books, percentage_read>>

---------------------------------------------------------------------------
(* Inputs *)

TitleInputs == {<<>>, <<" ">>, <<"A", " ">>}
AuthorInputs == {<<>>, <<" ">>, <<" ", "B">>}
\* 1.5
YearInputs == {[whole |-> 1, tenths |-> 5]}
GenreInputs == {<<"g", " ">>}
RemoveInputs == {<<>>, <<"a">>, <<"A", "B">>, <<"a", " ">>}
QueryInputs == {<<>>, <<"A">>, <<"b">>, <<"b", "a">>}

NoArgs == [none |-> TRUE]

\* books of catalogs saved by earlier runs
Book(title, author, year, read) ==
    [title |-> title, author |-> author, year |-> year, genre |-> <<"g">>, read |-> read]

SavedBooks ==
    {Book(<<"a">>, <<"B">>, 1965, TRUE),
     Book(<<"A">>, <<"c">>, 0, FALSE),
     Book(<<"a", "b">>, <<"c">>, 1815, FALSE),
     Book(<<"c">>, <<"B">>, 0, TRUE)}

SavedCatalogs == UNION {[1..n -> SavedBooks] : n \in 0..MaxCatalog}

\* what the storage location may hold when the program starts: nothing, an
\* empty file, cut-off JSON, JSON that is no list (null), bytes that are no
\* UTF-8, or a catalog saved by an earlier run
InitialFiles ==
    {NoFile, TextFile(<<>>), TextFile(<<Punct("[")>>), TextFile(<<NullTok>>), BinaryFile}
    \cup {TextFile(json_dump(c)) : c \in SavedCatalogs}

---------------------------------------------------------------------------
(* Actions *)

\* manager = LibraryManager(): __init__ runs load_library; Streamlit reruns
\* the script, and so this line, on every interaction
Constructed(f) ==
    LET r == load_library(f) IN
    /\ file = f
    /\ library = r.value
    /\ op = "load"
    /\ args = NoArgs
    /\ outcome = (IF r.raised THEN "Raised" ELSE "Loaded")
    /\ ret = PyNone
    /\ saved = FALSE

Init == \E f \in InitialFiles : Constructed(f)

Construct ==
    LET r == load_library(file) IN
    /\ library' = r.value
    /\ op' = "load"
    /\ args' = NoArgs
    /\ outcome' = (IF r.raised THEN "Raised" ELSE "Loaded")
    /\ ret' = PyNone
    /\ saved' = FALSE
    /\ UNCHANGED file

\* the state after a mutating call
Mutated(name, a, e) ==
    /\ library' = e.library
    /\ file' = e.file
    /\ op' = name
    /\ args' = a
    /\ outcome' = e.outcome
    /\ ret' = PyNone
    /\ saved' = e.saved

AddArgs(t, a, y, g, r) == [title |-> t, author |-> a, year |-> y, genre |-> g, read |-> r]

\* the catalog may still grow (the bound of the model)
Room == IsList(library) => Len(library.items) < MaxBooks

\* manager.add_book(...), the write succeeding
AddBook ==
    \E t \in TitleInputs, a \in AuthorInputs, y \in YearInputs,
       g \in GenreInputs, r \in BOOLEAN :
        /\ library # Unbound
        /\ (~Falsy(t) /\ ~Falsy(a)) => Room
        /\ Mutated("add", AddArgs(t, a, y, g, r),
                   add_book(library, file, t, a, y, g, r,
                            WriteAll(PyList(Append(library.items, NewBook(t, a, y, g, r))))))

\* manager.add_book(...), the write raising OSError
AddBookWriteFails ==
    \E t \in TitleInputs, a \in AuthorInputs, y \in YearInputs,
       g \in GenreInputs, r \in BOOLEAN :
        /\ IsList(library) /\ Room
        /\ ~Falsy(t) /\ ~Falsy(a)
        /\ \E w \in PartialWrites(PyList(Append(library.items, NewBook(t, a, y, g, r)))) :
            Mutated("add", AddArgs(t, a, y, g, r),
                    add_book(library, file, t, a, y, g, r, w))

\* manager.remove_book(title), the write succeeding
RemoveBook ==
    \E t \in RemoveInputs :
        /\ library # Unbound
        /\ Mutated("remove", [title |-> t],
                   remove_book(library, file, t,
                               WriteAll(PyList(KeepOthers(library.items, t)))))

\* manager.remove_book(title), the write raising OSError
RemoveBookWriteFails ==
    \E t \in RemoveInputs :
        /\ IsList(library)
        /\ \E w \in PartialWrites(PyList(KeepOthers(library.items, t))) :
            Mutated("remove", [title |-> t], remove_book(library, file, t, w))

\* manager.search_books(query)
SearchBooks ==
    \E q \in QueryInputs :
        /\ library # Unbound
        /\ op' = "search"
        /\ args' = [query |-> q]
        /\ outcome' = (IF IsList(library) THEN "Returned" ELSE "Raised")
        /\ ret' = (IF IsList(library) THEN search_books(library, q) ELSE PyNone)
        /\ saved' = FALSE
        /\ UNCHANGED <<library, file>>

\* manager.display_statistics()
Statistics ==
    /\ library # Unbound
    /\ op' = "stats"
    /\ args' = NoArgs
    /\ outcome' = (IF IsList(library) THEN "Returned" ELSE "Raised")
    /\ ret' = (IF IsList(library) THEN display_statistics(library) ELSE PyNone)
    /\ saved' = FALSE
    /\ UNCHANGED <<library, file>>

\* the program with a storage location that can always be written
Next == Construct \/ AddBook \/ RemoveBook \/ SearchBooks \/ Statistics

Spec == Init /\ [][Next]_vars

\* the program with writes that may fail
NextIO == Next \/ AddBookWriteFails \/ RemoveBookWriteFails

SpecIO == Init /\ [][NextIO]_vars

---------------------------------------------------------------------------
(* Vocabulary of the properties, stated without the program's helpers *)

\* s without its leading and trailing blanks
Trimmed(s) ==
    LET inked == {i \in 1..Len(s) : s[i] # " "} IN
    IF inked = {} THEN <<>>
    ELSE SubSeq(s, CHOOSE i \in inked : \A j \in inked : i <= j,
                   CHOOSE i \in inked : \A j \in inked : j <= i)

\* the same letter, case aside
SameLetter(c, d) == c = d \/ {c, d} \in {{"a", "A"}, {"b", "B"}, {"c", "C"}}

\* equal, case aside
SameText(s, t) == Len(s) = Len(t) /\ \A i \in 1..Len(s) : SameLetter(s[i], t[i])

\* q occurs in s, case aside
Contains(q, s) ==
    \E k \in 0..(Len(s) - Len(q)) : \A j \in 1..Len(q) : SameLetter(s[k + j], q[j])

\* the items of seq at the positions idx, in their order in seq
Subsequence(seq, idx) ==
    [j \in 1..Cardinality(idx) |->
        seq[CHOOSE i \in idx : Cardinality({k \in idx : k < i}) = j - 1]]

\* the whole number n with n <= y < n + 1
WholePart(y) ==
    CHOOSE n \in 0..(y.whole + 1) :
        10 * n <= 10 * y.whole + y.tenths /\ 10 * y.whole + y.tenths < 10 * (n + 1)

\* the file holds exactly the catalog items
Persisted(f, items) ==
    /\ f.exists /\ f.utf8
    /\ LET r == json_load(f.toks) IN r.ok /\ r.kind = "list" /\ r.val = items

\* the last call was a mutating one and returned normally
MutationReturned ==
    op \in {"add", "remove"} /\ outcome \in {"Success", "NotFound"}

---------------------------------------------------------------------------
(* C1 *)

\* C1: immediately after every add_book/remove_book call that returns
\* normally, the persisted file parses to exactly the in-memory catalog
\* (same records, same order), also when earlier writes have failed.
C1_PersistedEqualsMemory ==
    MutationReturned => IsList(library) /\ Persisted(file, library.items)

C1_Witness ==
    /\ op = "add" /\ outcome = "Success"
    /\ Len(library.items) = 2
    /\ Persisted(file, library.items)

---------------------------------------------------------------------------
(* C2 *)

\* the title or the author of the add_book call is empty once trimmed
BlankField(a) == Trimmed(a.title) = <<>> \/ Trimmed(a.author) = <<>>

\* C2: an add_book call whose title or author is empty after trimming
\* (whitespace-only included) reports a validation failure, leaves the catalog
\* as it was and does not invoke save_library (the file is not written).
C2_BlankFieldRejected ==
    [][(op' = "add" /\ BlankField(args'))
        => (outcome' = "ValidationFailure" /\ library' = library
            /\ ~saved' /\ file' = file)]_vars

---------------------------------------------------------------------------
(* C3 *)

\* no record of the catalog has the title t, case aside
NoMatch(items, t) == \A i \in 1..Len(items) : ~SameText(items[i].title, t)

\* C3 as stated: remove_book(t) with no matching record leaves the catalog
\* unchanged, does not call save_library and reports NotFound.
C3_NoMatchNoSave ==
    [][(op' = "remove" /\ IsList(library) /\ NoMatch(library.items, args'.title))
        => (library' = library /\ ~saved' /\ outcome' = "NotFound")]_vars

\* C3 amended: remove_book(t) with no matching record leaves the catalog
\* unchanged and does call save_library; when the write succeeds the file
\* holds the unchanged catalog and the call reports NotFound, and when the
\* write fails the OSError leaves the call.
C3_NoMatchStillSaves ==
    [][(op' = "remove" /\ IsList(library) /\ NoMatch(library.items, args'.title))
        => (/\ library' = library
            /\ saved'
            /\ outcome' \in {"NotFound", "Raised"}
            /\ outcome' = "NotFound" => Persisted(file', library.items))]_vars

C3_Witness ==
    /\ op = "remove" /\ outcome = "NotFound" /\ saved
    /\ Len(library.items) >= 1
    /\ NoMatch(library.items, args.title)

---------------------------------------------------------------------------
(* C4 *)

\* C4: an add_book call on a catalog, with title and author non-empty after
\* trimming, yields the prior catalog followed by exactly one new last record
\* holding the trimmed title, author and genre, the year coerced to a whole
\* number and the read flag as given, and reports Success.
C4_AddAppendsTrimmed ==
    [][(op' = "add" /\ IsList(library) /\ ~BlankField(args'))
        => (/\ outcome' = "Success"
            /\ IsList(library')
            /\ library'.items =
                 Append(library.items,
                        [title |-> Trimmed(args'.title),
                         author |-> Trimmed(args'.author),
                         year |-> WholePart(args'.year),
                         genre |-> Trimmed(args'.genre),
                         read |-> args'.read]))]_vars

C4_Witness ==
    /\ op = "add" /\ outcome = "Success"
    /\ args.title = <<"A", " ">> /\ args.author = <<" ", "B">>
    /\ Len(library.items) = 2
    /\ library.items[2].title = <<"A">> /\ library.items[2].year = 1

---------------------------------------------------------------------------
(* C5 *)

\* the positions of the records whose title is not t, case aside
Others(items, t) == {i \in 1..Len(items) : ~SameText(items[i].title, t)}

\* C5: remove_book(t) on a catalog removes every record whose title equals t
\* case aside, no other record, keeps the rest in their order, shortens the
\* catalog by the number of matching records, and reports Success when that
\* number is at least one.
C5_RemovesEveryMatch ==
    [][(op' = "remove" /\ IsList(library))
        => LET t == args'.title
               matches == Len(library.items) - Cardinality(Others(library.items, t))
           IN  /\ IsList(library')
               /\ library'.items = Subsequence(library.items, Others(library.items, t))
               /\ Len(library'.items) = Len(library.items) - matches
               /\ matches >= 1 => outcome' = "Success"]_vars

\* two records left of a saved catalog, after a removal of "a"/"A" records
C5_Witness ==
    /\ op = "remove" /\ outcome = "Success" /\ args.title = <<"a">>
    /\ Len(library.items) = 2
    /\ library.items[1].title = <<"a", "b">> /\ library.items[2].title = <<"c">>

---------------------------------------------------------------------------
(* C6 *)

\* the file holds a serialized list
HoldsList(f) ==
    f.exists /\ f.utf8 /\ json_load(f.toks).ok /\ json_load(f.toks).kind = "list"

\* C6: loading from a location that is missing, or whose content does not
\* parse as a serialized sequence of records, yields an empty catalog and
\* raises nothing.
C6_LoadRecovers ==
    (op = "load" /\ ~HoldsList(file)) => (outcome = "Loaded" /\ library = PyList(<<>>))

---------------------------------------------------------------------------
(* C7 *)

\* C7: a call that invokes save_library either leaves the file holding the
\* complete serialization of the catalog or leaves its content intact, also
\* when the write fails partway.
C7_NeverPartial ==
    [][saved' => (file' = file \/ Persisted(file', library'.items))]_vars

---------------------------------------------------------------------------
(* C8 *)

\* the positions of the records whose title or author contains q, case aside
Hits(items, q) ==
    {i \in 1..Len(items) : Contains(q, items[i].title) \/ Contains(q, items[i].author)}

\* C8: search_books(q) on a catalog returns exactly the records whose title
\* or author contains q case aside, in catalog order; the empty query returns
\* every record; the call changes neither the catalog nor the file.
C8_SearchExact ==
    [][(op' = "search" /\ IsList(library))
        => LET q == args'.query IN
           /\ outcome' = "Returned"
           /\ ret' = Subsequence(library.items, Hits(library.items, q))
           /\ q = <<>> => ret' = library.items
           /\ library' = library /\ file' = file /\ ~saved']_vars

\* a query that the author alone answers for one record and that another
\* record does not answer
C8_Witness ==
    /\ op = "search" /\ outcome = "Returned" /\ args.query = <<"b">>
    /\ Len(library.items) = 3
    /\ ret = <<library.items[1], library.items[3]>>
    /\ library.items[1].title = <<"a">> /\ library.items[1].author = <<"B">>

---------------------------------------------------------------------------
(* C9 *)

\* C9: after add_book or remove_book has saved the catalog, constructing a
\* new manager on the same file loads a catalog equal to the saved one,
\* record for record and field for field.
C9_SaveLoadRoundTrip ==
    [][(MutationReturned /\ saved /\ op' = "load")
        => (outcome' = "Loaded" /\ library' = library)]_vars

\* a catalog loaded back that holds a record only add_book can have made
C9_Witness ==
    /\ op = "load" /\ outcome = "Loaded" /\ IsList(library)
    /\ Len(library.items) = 2
    /\ library.items[1] \in SavedBooks
    /\ library.items[2] = [title |-> <<"A">>, author |-> <<"B">>, year |-> 1,
                           genre |-> <<"g">>, read |-> TRUE]

---------------------------------------------------------------------------
(* C10 *)

\* the number of records marked read
ReadCount(items) == Cardinality({i \in 1..Len(items) : items[i].read})

\* C10: display_statistics() on a catalog returns the number of records and
\* 100 * readCount / totalCount, or 0 for an empty catalog; so (0, 0) on an
\* empty catalog and (4, 25) on four records with one read; the call changes
\* neither the catalog nor the file.
C10_Statistics ==
    [][(op' = "stats" /\ IsList(library))
        => LET total == Len(library.items)
               reads == ReadCount(library.items)
               pct == ret'[2]
           IN  /\ outcome' = "Returned"
               /\ ret'[1] = total
               /\ pct.den > 0
               /\ total > 0 => pct.num * total = 100 * reads * pct.den
               /\ total = 0 => pct.num = 0
               /\ (total = 4 /\ reads = 1) => pct = [num |-> 25, den |-> 1]
               /\ library' = library /\ file' = file /\ ~saved']_vars

C10_Witness ==
    /\ op = "stats" /\ outcome = "Returned"
    /\ Len(library.items) = 4 /\ ReadCount(library.items) = 1
    /\ ret = <<4, [num |-> 25, den |-> 1]>>

====
